---- MODULE Spec2Model ----
(***************************************************************************)
(* The reconnecting Server-Sent Events client of src/src/reqwest.rs and    *)
(* the event-stream line parser of src/src/event.rs.                       *)
(*                                                                         *)
(* Text is a sequence of one-character strings, so that trimming,          *)
(* splitting at the first colon and integer parsing are computed as the    *)
(* code computes them.  Option<T> is a sequence of length 0 (None) or 1    *)
(* (Some).  Time is in milliseconds.                                       *)
(***************************************************************************)
EXTENDS Integers, Sequences, FiniteSets, TLC

VARIABLES
    response,       \* Client.response: "None" or "Open"
    last_event_id,  \* Client.last_event_id: Option<String>
    last_try,       \* Client.last_try: Option<Instant>
    retry,          \* Client.retry: Duration in ms
    pc,             \* position of the caller's thread in Iterator::next
    event,          \* the local accumulator `event` of Iterator::next
    result,         \* the value the last pull returned
    now,            \* the monotonic clock read by Instant::now()
    nreq,           \* history: number of transport requests issued so far
    lastReq,        \* history: the most recent transport request, if any
    answer,         \* history: what the transport answered to it, until the next read
    rd,             \* history: outcome of the last read_line of the pull in progress
    block,          \* history: lines the open body served since the last returned Event
    owed,           \* history: blank lines served minus Events returned
    lastId,         \* history: id of the most recently returned Event that had one
    errRun,         \* history: errors returned in a row just before the current pull
    cut,            \* history: the last end of stream or read error in this pull
                    \* dropped a partial event
    atCall,         \* history: last_event_id and retry when the current pull
                    \* was called; between pulls, as they are
    trial           \* parse_event_line and Display applied outside the client

vars == <<response, last_event_id, last_try, retry, pc, event, result, now,
          nreq, lastReq, answer, rd, block, owed, lastId, errRun, cut,
                   atCall, trial>>

----------------------------------------------------------------------------
(* Bounds *)

MaxRequests == 2
MaxBlock == 2
MaxTime == 5000

----------------------------------------------------------------------------
(* Option and text helpers *)

None == <<>>
Some(x) == <<x>>

Str_event == <<"e", "v", "e", "n", "t">>
Str_data == <<"d", "a", "t", "a">>
Str_id == <<"i", "d">>
Str_retry == <<"r", "e", "t", "r", "y">>

\* faulty variant: index of the last occurrence
Find_Last(s, c) ==
    IF \E i \in 1..Len(s) : s[i] = c
    THEN CHOOSE i \in 1..Len(s) : s[i] = c /\ \A j \in (i + 1)..Len(s) : s[j] # c
    ELSE 0

\* str::find(c): index of the first occurrence, 0 when there is none
Find(s, c) ==
    IF \E i \in 1..Len(s) : s[i] = c
    THEN CHOOSE i \in 1..Len(s) : s[i] = c /\ \A j \in 1..(i - 1) : s[j] # c
    ELSE 0

\* faulty variant: only one trailing '\n' is removed
TrimRight_LfOnly(s) ==
    IF s # <<>> /\ s[Len(s)] = "\n" THEN SubSeq(s, 1, Len(s) - 1) ELSE s

\* str::trim_right_matches(|c| c == '\r' || c == '\n')
RECURSIVE TrimRight(_)
TrimRight(s) ==
    IF s # <<>> /\ s[Len(s)] \in {"\r", "\n"}
    THEN TrimRight(SubSeq(s, 1, Len(s) - 1))
    ELSE s

----------------------------------------------------------------------------
(* value.parse::<u64>() *)

DigitChars == {"0", "1", "2", "3", "4", "5", "6", "7", "8", "9"}

DigitVal(c) ==
    CASE c = "0" -> 0 [] c = "1" -> 1 [] c = "2" -> 2 [] c = "3" -> 3
      [] c = "4" -> 4 [] c = "5" -> 5 [] c = "6" -> 6 [] c = "7" -> 7
      [] c = "8" -> 8 [] c = "9" -> 9

U64MaxDigits == <<"1", "8", "4", "4", "6", "7", "4", "4", "0", "7", "3", "7",
                  "0", "9", "5", "5", "1", "6", "1", "5">>

RECURSIVE StripZeros(_)
StripZeros(d) == IF d # <<>> /\ d[1] = "0" THEN StripZeros(Tail(d)) ELSE d

\* a <= b for digit strings of the same length
RECURSIVE DigitsLeq(_, _)
DigitsLeq(a, b) ==
    IF a = <<>> THEN TRUE
    ELSE IF DigitVal(a[1]) < DigitVal(b[1]) THEN TRUE
    ELSE IF DigitVal(a[1]) > DigitVal(b[1]) THEN FALSE
    ELSE DigitsLeq(Tail(a), Tail(b))

FitsU64(d) ==
    LET z == StripZeros(d) IN
    \/ Len(z) < Len(U64MaxDigits)
    \/ Len(z) = Len(U64MaxDigits) /\ DigitsLeq(z, U64MaxDigits)

RECURSIVE DigitsValue(_)
DigitsValue(d) ==
    IF d = <<>> THEN 0
    ELSE 10 * DigitsValue(SubSeq(d, 1, Len(d) - 1)) + DigitVal(d[Len(d)])

\* faulty variant: whatever the value, zero milliseconds
ParseU64_AlwaysZero(v) == Some(0)

\* Ok(n) is Some(n), Err(_) is None: an optional '+', then one or more
\* decimal digits, whose value fits 64 bits
ParseU64(v) ==
    LET d == IF v # <<>> /\ v[1] = "+" THEN Tail(v) ELSE v IN
    IF d # <<>> /\ (\A i \in 1..Len(d) : d[i] \in DigitChars) /\ FitsU64(d)
    THEN Some(DigitsValue(StripZeros(d)))
    ELSE None

----------------------------------------------------------------------------
(* src/src/event.rs *)

\* Event::new
EmptyEvent == [id |-> None, event_type |-> None, data |-> <<>>]

PNext(e) == [tag |-> "Next", ms |-> 0, event |-> e]
\* faulty variant: the blank line empties the accumulator
PDispatch_Cleared(e) ==
    [tag |-> "Dispatch", ms |-> 0,
     event |-> [id |-> <<>>, event_type |-> <<>>, data |-> <<>>]]
PDispatch(e) == [tag |-> "Dispatch", ms |-> 0, event |-> e]
PSetRetry(n, e) == [tag |-> "SetRetry", ms |-> n, event |-> e]

\* the (field, value) pair of a trimmed, non-empty line
\* faulty variant: the space after the colon stays in the value
SplitLine_KeepSpace(l) ==
    LET pos == Find(l, ":") IN
    IF pos > 0
    THEN [field |-> SubSeq(l, 1, pos - 1), value |-> SubSeq(l, pos + 1, Len(l))]
    ELSE [field |-> l, value |-> <<>>]

\* faulty variant: a line with no colon has no field name
SplitLine_NoColonNoField(l) ==
    LET pos == Find(l, ":") IN
    IF pos > 0
    THEN LET v == SubSeq(l, pos + 1, Len(l)) IN
         [field |-> SubSeq(l, 1, pos - 1),
          value |-> IF v # <<>> /\ v[1] = " " THEN Tail(v) ELSE v]
    ELSE [field |-> <<>>, value |-> l]

SplitLine(l) ==
    LET pos == Find(l, ":") IN
    IF pos > 0
    THEN LET v == SubSeq(l, pos + 1, Len(l)) IN
         [field |-> SubSeq(l, 1, pos - 1),
          value |-> IF v # <<>> /\ v[1] = " " THEN Tail(v) ELSE v]
    ELSE [field |-> l, value |-> <<>>]

\* parse_event_line(line, &mut event): the ParseResult and the event afterwards
parse_event_line(line, e) ==
    LET l == TrimRight(line) IN
    IF l = <<>> THEN PDispatch(e)
    ELSE LET fv == SplitLine(l) IN
         CASE fv.field = Str_event ->
                PNext([e EXCEPT !.event_type = Some(fv.value)])
           [] fv.field = Str_data ->
                PNext([e EXCEPT !.data = e.data \o fv.value \o <<"\n">>])
           [] fv.field = Str_id ->
                PNext([e EXCEPT !.id = Some(fv.value)])
           [] fv.field = Str_retry ->
                IF ParseU64(fv.value) # None
                THEN PSetRetry(ParseU64(fv.value)[1], e)
                ELSE PNext(e)
           [] OTHER -> PNext(e)

\* parse_event_line or Display not yet applied
NoTrial ==
    [acc |-> EmptyEvent, line |-> None, tag |-> "none", ms |-> 0, nfed |-> 0,
     src |-> None, out |-> <<>>, wire |-> <<>>]

----------------------------------------------------------------------------
(* Inputs of the environment: body lines as BufRead::read_line returns     *)
(* them (terminator included), Content-Type values and status codes.       *)

LineBlankCRLF == <<"\r", "\n">>
LineBlankLF == <<"\n">>
LineId1 == <<"i", "d", ":", " ", "1", "\r", "\n">>
LineIdEmpty == <<"i", "d", ":", "\n">>
LineIdCtl == <<"i", "d", ":", " ", "1", "\r", "2", "\n">>
LineData == <<"d", "a", "t", "a", ":", " ", "a", "\n">>
LineRetry7 == <<"r", "e", "t", "r", "y", ":", " ", "7", "\n">>
LineRetry0 == <<"r", "e", "t", "r", "y", ":", "0", "\n">>
LineRetryBad == <<"r", "e", "t", "r", "y", ":", " ", "x", "\n">>

BlankLines == {LineBlankCRLF, LineBlankLF}
FieldLines == {LineId1, LineIdEmpty, LineIdCtl, LineData, LineRetry7,
               LineRetry0, LineRetryBad}
Lines == BlankLines \cup FieldLines

CtEventStream == <<"t", "e", "x", "t", "/", "e", "v", "e", "n", "t", "-",
                   "s", "t", "r", "e", "a", "m">>
CtWithParam == <<"t", "e", "x", "t", "/", "e", "v", "e", "n", "t", "-",
                 "s", "t", "r", "e", "a", "m", ";", "c", "h", "a", "r", "s",
                 "e", "t", "=", "u", "t", "f", "8">>
CtUpper == <<"T", "e", "x", "t", "/", "E", "v", "e", "n", "t", "-",
             "S", "t", "r", "e", "a", "m">>
CtPlain == <<"t", "e", "x", "t", "/", "p", "l", "a", "i", "n">>
CtNoSlash == <<"t", "e", "x", "t">>

ContentTypes == {None, Some(CtEventStream), Some(CtWithParam), Some(CtUpper),
                 Some(CtPlain), Some(CtNoSlash)}

Statuses == {199, 200, 299, 300, 404}

\* what the transport answers to one request
Outcomes ==
    {[kind |-> "fail", status |-> 0, ct |-> None]}
    \cup [kind : {"resp"}, status : Statuses, ct : ContentTypes]

TickSteps == {2500, 5000}

----------------------------------------------------------------------------
(* src/src/reqwest.rs *)

DEFAULT_RETRY == 5000

UpperChars == <<"A", "B", "C", "D", "E", "F", "G", "H", "I", "J", "K", "L", "M",
                "N", "O", "P", "Q", "R", "S", "T", "U", "V", "W", "X", "Y", "Z">>
LowerChars == <<"a", "b", "c", "d", "e", "f", "g", "h", "i", "j", "k", "l", "m",
                "n", "o", "p", "q", "r", "s", "t", "u", "v", "w", "x", "y", "z">>

ToLower(s) ==
    [i \in 1..Len(s) |->
        IF \E k \in 1..26 : UpperChars[k] = s[i]
        THEN LowerChars[CHOOSE k \in 1..26 : UpperChars[k] = s[i]]
        ELSE s[i]]

\* "...".parse::<mime::Mime>(): Some(mime) or None; type and subtype are
\* lower-cased, parameters follow the first ';'
MimeParse(ct) ==
    LET slash == Find(ct, "/")
        semi == Find(ct, ";")
        end == IF semi > 0 THEN semi - 1 ELSE Len(ct)
    IN  IF slash <= 1 \/ slash >= end
        THEN None
        ELSE Some([type |-> ToLower(SubSeq(ct, 1, slash - 1)),
                   subtype |-> ToLower(SubSeq(ct, slash + 1, end)),
                   source |-> ct])

\* HeaderValue::from_str(id) is Ok: no control character in the value
ValidHeaderValue(v) == \A i \in 1..Len(v) : v[i] \notin {"\r", "\n"}

\* faulty variant: the Last-Event-ID header is never added
RequestHeaders_NoId(leid) == {<<"Accept", CtEventStream>>}

\* the header map next_request builds
RequestHeaders(leid) ==
    {<<"Accept", CtEventStream>>}
    \cup (IF leid # None THEN {<<"Last-Event-ID", leid[1]>>} ELSE {})

\* faulty variant: 300 counts as a success
is_success_Upto300(status) == 200 <= status /\ status <= 300

\* StatusCode::is_success
is_success(status) == 200 <= status /\ status < 300

NoResult == [kind |-> "None"]
Panic == [kind |-> "Panic"]
OkEvent(e) == [kind |-> "Event", event |-> e]
ErrIo == [kind |-> "Err", error |-> "Io"]
ErrReqwest == [kind |-> "Err", error |-> "Reqwest"]
ErrHttp(status) == [kind |-> "Err", error |-> "Http", status |-> status]
ErrInvalidContentType(m) == [kind |-> "Err", error |-> "InvalidContentType", mime |-> m]
ErrNoContentType == [kind |-> "Err", error |-> "NoContentType"]
OkUnit == [kind |-> "Ok"]

\* next_request after send(): Ok(()), an Err, or a panic of unwrap()
next_request(out) ==
    IF out.kind = "fail" THEN ErrReqwest
    ELSE IF ~is_success(out.status) THEN ErrHttp(out.status)
    ELSE IF out.ct = None THEN ErrNoContentType
    ELSE LET m == MimeParse(out.ct[1]) IN
         IF m = None THEN Panic
         ELSE IF <<m[1].type, m[1].subtype>> # <<<<"t", "e", "x", "t">>, SubSeq(CtEventStream, 6, 17)>>
         THEN ErrInvalidContentType(m[1])
         ELSE OkUnit

\* faulty variant: the constructor already sends the first request
Init_EagerRequest ==
    /\ response = "None"
    /\ last_event_id = None
    /\ last_try = Some(0)
    /\ retry = DEFAULT_RETRY
    /\ pc = "idle"
    /\ event = EmptyEvent
    /\ result = NoResult
    /\ now = 0
    /\ nreq = 1
    /\ lastReq = Some([t |-> 0, headers |-> RequestHeaders(None)])
    /\ answer = None
    /\ rd = "none"
    /\ block = <<>>
    /\ owed = 0
    /\ lastId = None
    /\ errRun = 0
    /\ cut = FALSE
    /\ atCall = [last_event_id |-> None, retry |-> DEFAULT_RETRY]
    /\ trial = NoTrial

Init ==
    /\ response = "None"
    /\ last_event_id = None
    /\ last_try = None
    /\ retry = DEFAULT_RETRY
    /\ pc = "idle"
    /\ event = EmptyEvent
    /\ result = NoResult
    /\ now = 0
    /\ nreq = 0
    /\ lastReq = None
    /\ answer = None
    /\ rd = "none"
    /\ block = <<>>
    /\ owed = 0
    /\ lastId = None
    /\ errRun = 0
    /\ cut = FALSE
    /\ atCall = [last_event_id |-> None, retry |-> DEFAULT_RETRY]
    /\ trial = NoTrial

\* faulty variant: every pull starts with the retry wait and a new request
Call_AlwaysReconnects ==
    /\ pc = "idle"
    /\ pc' = "wait"
    /\ response' = "None"
    /\ result' = NoResult
    /\ event' = EmptyEvent
    /\ answer' = None
    /\ rd' = "none"
    /\ block' = <<>>
    /\ errRun' = IF result.kind = "Err" THEN errRun + 1 ELSE 0
    /\ cut' = FALSE
    /\ atCall' = [last_event_id |-> last_event_id, retry |-> retry]
    /\ UNCHANGED <<last_event_id, last_try, retry, now, nreq, lastReq,
                   owed, lastId, trial>>

\* the caller calls Iterator::next
Call ==
    /\ pc = "idle"
    /\ pc' = IF response = "None" THEN "wait" ELSE "read"
    /\ result' = NoResult
    /\ event' = EmptyEvent
    /\ answer' = None
    /\ rd' = "none"
    /\ block' = <<>>
    /\ errRun' = IF result.kind = "Err" THEN errRun + 1 ELSE 0
    /\ cut' = FALSE
    /\ atCall' = [last_event_id |-> last_event_id, retry |-> retry]
    /\ UNCHANGED <<response, last_event_id, last_try, retry, now, nreq, lastReq,
                   owed, lastId, trial>>

\* faulty variant: no retry wait
AfterSleep_NoSleep(t, lt, r) == t

\* faulty variant: the full retry interval is slept, whatever time has elapsed
AfterSleep_Full(t, lt, r) == IF lt # None THEN t + r ELSE t

\* the time at which the retry wait ends: thread::sleep(retry - elapsed)
\* when elapsed < retry
AfterSleep(t, lt, r) ==
    IF lt # None /\ t - lt[1] < r THEN t + (r - (t - lt[1])) ELSE t

\* faulty variant: the wait uses the retry interval the pull started with
Wait_RetryAtCall ==
    /\ pc = "wait"
    /\ now' = AfterSleep(now, last_try, atCall.retry)
    /\ pc' = "connect"
    /\ UNCHANGED <<response, last_event_id, last_try, retry, event, result,
                   nreq, lastReq, answer, rd, block, owed, lastId, errRun, cut,
                   atCall, trial>>

\* if let Some(last_try): thread::sleep(retry - elapsed) when elapsed < retry
Wait ==
    /\ pc = "wait"
    /\ now' = AfterSleep(now, last_try, retry)
    /\ pc' = "connect"
    /\ UNCHANGED <<response, last_event_id, last_try, retry, event, result,
                   nreq, lastReq, answer, rd, block, owed, lastId, errRun, cut,
                   atCall, trial>>

\* last_try = now, then next_request builds the headers and sends the request
Connect ==
    /\ pc = "connect"
    /\ nreq < MaxRequests
    /\ last_try' = Some(now)
    /\ IF last_event_id # None /\ ~ValidHeaderValue(last_event_id[1])
       THEN /\ pc' = "panicked"
            /\ result' = Panic
            /\ UNCHANGED <<nreq, lastReq>>
       ELSE /\ pc' = "send"
            /\ result' = result
            /\ nreq' = nreq + 1
            /\ lastReq' = Some([t |-> now,
                                headers |-> RequestHeaders(last_event_id)])
    /\ UNCHANGED <<response, last_event_id, retry, event, now, answer, rd,
                   block, owed, lastId, errRun, cut, atCall, trial>>

\* faulty variant: the response is stored before its Content-Type is checked
Respond_StoredUnchecked(out) ==
    /\ pc = "send"
    /\ LET r == next_request(out) IN
       /\ response' = IF out.kind = "resp" /\ is_success(out.status)
                       THEN "Open" ELSE "None"
       /\ pc' = IF r = OkUnit THEN "read"
                ELSE IF r = Panic THEN "panicked" ELSE "idle"
       /\ result' = IF r = OkUnit THEN result ELSE r
    /\ event' = EmptyEvent
    /\ answer' = Some(out)
    /\ block' = <<>>
    /\ UNCHANGED <<last_event_id, last_try, retry, now, nreq, lastReq, rd, owed,
                   lastId, errRun, cut, atCall, trial>>

\* faulty variant: a failed connect forgets the last event id
Respond_ErrorClearsId(out) ==
    /\ pc = "send"
    /\ LET r == next_request(out) IN
       /\ response' = IF r = OkUnit THEN "Open" ELSE "None"
       /\ pc' = IF r = OkUnit THEN "read"
                ELSE IF r = Panic THEN "panicked" ELSE "idle"
       /\ result' = IF r = OkUnit THEN result ELSE r
       /\ last_event_id' = IF r \in {OkUnit, Panic} THEN last_event_id ELSE None
       /\ atCall' = IF r \in {OkUnit, Panic} THEN atCall
                    ELSE [last_event_id |-> None, retry |-> retry]
    /\ event' = EmptyEvent
    /\ answer' = Some(out)
    /\ block' = <<>>
    /\ UNCHANGED <<last_try, retry, now, nreq, lastReq, rd, owed,
                   lastId, errRun, cut, trial>>

\* the transport answers; next_request checks status and Content-Type
Respond(out) ==
    /\ pc = "send"
    /\ LET r == next_request(out) IN
       /\ response' = IF r = OkUnit THEN "Open" ELSE "None"
       /\ pc' = IF r = OkUnit THEN "read"
                ELSE IF r = Panic THEN "panicked" ELSE "idle"
       /\ result' = IF r = OkUnit THEN result ELSE r
       /\ atCall' = IF r \in {OkUnit, Panic} THEN atCall
                    ELSE [last_event_id |-> last_event_id, retry |-> retry]
    /\ event' = EmptyEvent
    /\ answer' = Some(out)
    /\ block' = <<>>
    /\ UNCHANGED <<last_event_id, last_try, retry, now, nreq, lastReq, rd, owed,
                   lastId, errRun, cut, trial>>

\* faulty variant: SetRetry is dropped
NewRetry_Ignored(p, r) == r

\* self.retry after a line: ParseResult::SetRetry(retry) => self.retry = *retry
NewRetry(p, r) == IF p.tag = "SetRetry" THEN p.ms ELSE r

\* faulty variant: the id is stored as soon as its line is parsed
NewLastEventId_AtIdLine(p, leid) ==
    IF p.event.id # None THEN Some(p.event.id[1]) ELSE leid

\* self.last_event_id after a line: set from event.id on Dispatch
NewLastEventId(p, leid) ==
    IF p.tag = "Dispatch" /\ p.event.id # None THEN Some(p.event.id[1]) ELSE leid

\* read_line returns Ok(n), n > 0: the line goes through parse_event_line
ReadLine(line) ==
    /\ pc = "read"
    /\ line \in BlankLines \/ Len(block) < MaxBlock
    /\ LET p == parse_event_line(line, event) IN
       /\ retry' = NewRetry(p, retry)
       /\ last_event_id' = NewLastEventId(p, last_event_id)
       /\ result' = IF p.tag = "Dispatch" THEN OkEvent(p.event) ELSE result
       /\ pc' = IF p.tag = "Dispatch" THEN "idle" ELSE "read"
       /\ event' = IF p.tag = "Dispatch" THEN EmptyEvent ELSE p.event
       /\ owed' = owed + (IF line \in BlankLines THEN 1 ELSE 0)
                       - (IF p.tag = "Dispatch" THEN 1 ELSE 0)
       /\ atCall' = IF p.tag = "Dispatch"
                    THEN [last_event_id |-> NewLastEventId(p, last_event_id),
                          retry |-> NewRetry(p, retry)]
                    ELSE atCall
       /\ lastId' = IF p.tag = "Dispatch" /\ p.event.id # None
                    THEN p.event.id ELSE lastId
    /\ block' = IF line \in BlankLines THEN block ELSE Append(block, line)
    /\ rd' = "line"
    /\ answer' = None
    /\ UNCHANGED <<response, last_try, now, nreq, lastReq, errRun, cut, trial>>

\* faulty variant: the response is still held while the next one is requested
Reconnect_KeepsResponse(how) ==
    /\ pc = "read"
    /\ last_try' = Some(now)
    /\ pc' = "wait"
    /\ event' = EmptyEvent
    /\ block' = <<>>
    /\ rd' = how
    /\ answer' = None
    /\ cut' = (event # EmptyEvent)
    /\ UNCHANGED <<response, last_event_id, retry, result, now, nreq, lastReq,
                   owed, lastId, errRun, atCall, trial>>

\* faulty variant: the accumulator outlives the connection
Reconnect_KeepsAccumulator(how) ==
    /\ pc = "read"
    /\ last_try' = Some(now)
    /\ response' = "None"
    /\ pc' = "wait"
    /\ block' = <<>>
    /\ rd' = how
    /\ answer' = None
    /\ cut' = (event # EmptyEvent)
    /\ UNCHANGED <<last_event_id, retry, event, result, now, nreq, lastReq, owed,
                   lastId, errRun, atCall, trial>>

\* faulty variant: the value the read loop broke with is returned
Reconnect_ReturnsBreakValue(how) ==
    /\ pc = "read"
    /\ last_try' = Some(now)
    /\ response' = "None"
    /\ pc' = "idle"
    /\ result' = IF how = "eof" THEN [kind |-> "End"] ELSE ErrIo
    /\ event' = EmptyEvent
    /\ block' = <<>>
    /\ rd' = how
    /\ answer' = None
    /\ cut' = (event # EmptyEvent)
    /\ UNCHANGED <<last_event_id, retry, now, nreq, lastReq, owed, lastId,
                   errRun, atCall, trial>>

\* EOF or a stream error: last_try = now, response = None, self.next()
Reconnect(how) ==
    /\ pc = "read"
    /\ last_try' = Some(now)
    /\ response' = "None"
    /\ pc' = "wait"
    /\ event' = EmptyEvent
    /\ block' = <<>>
    /\ rd' = how
    /\ answer' = None
    /\ cut' = (event # EmptyEvent)
    /\ UNCHANGED <<last_event_id, retry, result, now, nreq, lastReq, owed,
                   lastId, errRun, atCall, trial>>

\* faulty variant: end-of-stream ends the iteration, next() returns None
ReadEof_EndsIteration ==
    /\ pc = "read"
    /\ response' = "None"
    /\ pc' = "idle"
    /\ result' = [kind |-> "End"]
    /\ event' = EmptyEvent
    /\ block' = <<>>
    /\ rd' = "eof"
    /\ answer' = None
    /\ cut' = (event # EmptyEvent)
    /\ UNCHANGED <<last_event_id, last_try, retry, now, nreq, lastReq, owed,
                   lastId, errRun, atCall, trial>>

\* read_line returns Ok(0)
ReadEof == Reconnect("eof")

\* faulty variant: the read error is returned and the connection kept
ReadError_Surfaced ==
    /\ pc = "read"
    /\ pc' = "idle"
    /\ result' = ErrIo
    /\ event' = EmptyEvent
    /\ block' = <<>>
    /\ rd' = "err"
    /\ answer' = None
    /\ cut' = (event # EmptyEvent)
    /\ UNCHANGED <<response, last_event_id, last_try, retry, now, nreq, lastReq,
                   owed, lastId, errRun, atCall, trial>>

\* read_line returns Err(err)
ReadError == Reconnect("err")

\* time passes while the thread is blocked or between pulls
Tick(d) ==
    /\ pc \in {"idle", "connect", "send", "read"}
    /\ now + d <= MaxTime
    /\ now' = now + d
    /\ UNCHANGED <<response, last_event_id, last_try, retry, pc, event, result,
                   nreq, lastReq, answer, rd, block, owed, lastId, errRun, cut,
                   atCall, trial>>

Next ==
    \/ Call
    \/ Wait
    \/ Connect
    \/ \E out \in Outcomes : Respond(out)
    \/ \E line \in Lines : ReadLine(line)
    \/ ReadEof
    \/ ReadError
    \/ \E d \in TickSteps : Tick(d)

Spec == Init /\ [][Next]_vars

----------------------------------------------------------------------------
(* src/src/event.rs applied on its own: parse_event_line fed line by line
   on one accumulator, and an Event written with Display and read back. *)

MaxFed == 3   \* lines fed to parse_event_line in one run

InEmpty == <<>>
InDataA == <<"d", "a", "t", "a", ":", " ", "a", "\n">>
InDataB == <<"d", "a", "t", "a", ":", "b", "\r", "\n">>
InDataSp == <<"d", "a", "t", "a", ":", " ", " ", "c">>
InDataColon == <<"d", "a", "t", "a", ":", " ", "a", ":", "b", "\n">>
InDataBare == <<"d", "a", "t", "a">>
InId42 == <<"i", "d", ":", " ", "4", "2">>
InIdBare == <<"i", "d", "\n">>
InEventE == <<"e", "v", "e", "n", "t", ":", " ", "e", "\n">>
InEventBare == <<"e", "v", "e", "n", "t", "\r", "\n">>
InRetryPlus == <<"r", "e", "t", "r", "y", ":", " ", "+", "7", "\n">>
InRetryNeg == <<"r", "e", "t", "r", "y", ":", " ", "-", "1", "\n">>
InRetryBare == <<"r", "e", "t", "r", "y">>
InRetryBig == <<"r", "e", "t", "r", "y", ":">> \o U64MaxDigits \o <<"0", "\n">>
InComment == <<":", " ", "c", "\n">>
InOther == <<"f", "o", "o", ":", " ", "b", "a", "r", "\n">>
InOtherBare == <<"f", "o", "o", "\n">>
InIdColon == <<"i", "d", ":", " ", "1", ":", "2", "\n">>
InEventSp == <<"e", "v", "e", "n", "t", ":", " ", " ", "e", "\r", "\n">>
InDataUpper == <<"D", "a", "t", "a", ":", " ", "a", "\n">>
InDataLead == <<" ", "d", "a", "t", "a", ":", " ", "a", "\n">>
InDataTrail == <<"d", "a", "t", "a", " ", ":", " ", "a", "\n">>
InDataCrInside == <<"d", "a", "t", "a", ":", "a", "\r", "b", "\n", "\r", "\n">>

InBlank == {InEmpty, LineBlankLF, LineBlankCRLF}
InData == {InDataA, InDataB, InDataSp, InDataColon, InDataBare}
InRetryGood == {LineRetry7, LineRetry0, InRetryPlus}
InRetryBad == {LineRetryBad, InRetryNeg, InRetryBare, InRetryBig}
InNoColon == {InDataBare, InIdBare, InEventBare, InRetryBare, InOtherBare}
InLines ==
    InBlank \cup InData \cup InRetryGood \cup InRetryBad \cup InNoColon
        \cup {InId42, LineIdEmpty, InEventE, InComment, InOther}
        \cup {InIdColon, InEventSp, InDataUpper, InDataLead, InDataTrail,
              InDataCrInside}

\* Events handed to Display.  A data whose last line ends in a carriage
\* return with no newline after it is left out: str::lines() changed what
\* it yields for it between toolchains.
ShowIds == {None, Some(<<>>), Some(<<"1">>), Some(<<" ", "1">>),
            Some(<<"1", "\r">>), Some(<<"1", "\n", "2">>)}
ShowTypes == {None, Some(<<"e">>)}
ShowDatas == {<<>>, <<"a">>, <<"a", "\n">>, <<"a", "\n", "\n", "b">>,
              <<"a", "\r", "\n">>, <<"\n">>, <<"a", "\n", "b", "\n">>}
ShowEvents ==
    {[id |-> i, event_type |-> t, data |-> d] :
        i \in ShowIds, t \in ShowTypes, d \in ShowDatas}

StripCr(s) ==
    IF s # <<>> /\ s[Len(s)] = "\r" THEN SubSeq(s, 1, Len(s) - 1) ELSE s

\* str::lines(): pieces ended by "\n" or "\r\n", the terminator removed; a
\* last piece with no terminator is a line too, an empty one is not
RECURSIVE StrLines(_)
StrLines(s) ==
    IF s = <<>> THEN <<>>
    ELSE LET p == Find(s, "\n") IN
         IF p = 0 THEN <<s>>
         ELSE <<StripCr(SubSeq(s, 1, p - 1))>> \o StrLines(SubSeq(s, p + 1, Len(s)))

RECURSIVE WriteData(_)
WriteData(ls) ==
    IF ls = <<>> THEN <<>>
    ELSE Str_data \o <<":", " ">> \o Head(ls) \o <<"\n">> \o WriteData(Tail(ls))

\* faulty variant: the data written as one line whatever it holds
Display_OneDataLine(e) ==
    (IF e.id # None THEN Str_id \o <<":", " ">> \o e.id[1] \o <<"\n">> ELSE <<>>)
    \o (IF e.event_type # None
        THEN Str_event \o <<":", " ">> \o e.event_type[1] \o <<"\n">> ELSE <<>>)
    \o (IF e.data # <<>> THEN Str_data \o <<":", " ">> \o e.data \o <<"\n">> ELSE <<>>)

\* impl fmt::Display for Event
Display(e) ==
    (IF e.id # None THEN Str_id \o <<":", " ">> \o e.id[1] \o <<"\n">> ELSE <<>>)
    \o (IF e.event_type # None
        THEN Str_event \o <<":", " ">> \o e.event_type[1] \o <<"\n">> ELSE <<>>)
    \o WriteData(StrLines(e.data))

\* BufRead::read_line over a text: each line with its "\n"
RECURSIVE ReadLines(_)
ReadLines(s) ==
    IF s = <<>> THEN <<>>
    ELSE LET p == Find(s, "\n") IN
         IF p = 0 THEN <<s>>
         ELSE <<SubSeq(s, 1, p)>> \o ReadLines(SubSeq(s, p + 1, Len(s)))

Parsed(line) ==
    LET p == parse_event_line(line, trial.acc) IN
    [trial EXCEPT !.acc = p.event, !.line = Some(line), !.tag = p.tag,
                  !.ms = p.ms, !.nfed = trial.nfed + 1]

\* parse_event_line(line, &mut event) on the accumulator as it stands
Feed(line) ==
    /\ trial.src = None
    /\ trial.nfed < MaxFed
    /\ trial' = Parsed(line)
    /\ UNCHANGED <<response, last_event_id, last_try, retry, pc, event, result,
                   now, nreq, lastReq, answer, rd, block, owed, lastId, errRun, cut,
                   atCall>>

\* Event::clear() after a Dispatch
Clear ==
    /\ trial.src = None
    /\ trial.tag = "Dispatch"
    /\ trial.acc # EmptyEvent
    /\ trial' = [trial EXCEPT !.acc = EmptyEvent, !.tag = "none", !.line = None]
    /\ UNCHANGED <<response, last_event_id, last_try, retry, pc, event, result,
                   now, nreq, lastReq, answer, rd, block, owed, lastId, errRun, cut,
                   atCall>>

\* format!("{}", e): the text, and its lines and a blank line queued for reading
Show(e) ==
    /\ trial = NoTrial
    /\ trial' = [trial EXCEPT !.src = Some(e), !.out = Display(e),
                              !.wire = ReadLines(Display(e)) \o <<LineBlankLF>>]
    /\ UNCHANGED <<response, last_event_id, last_try, retry, pc, event, result,
                   now, nreq, lastReq, answer, rd, block, owed, lastId, errRun, cut,
                   atCall>>

\* the next line of the written text goes to parse_event_line
Echo ==
    /\ trial.src # None
    /\ trial.wire # <<>>
    /\ trial' = [Parsed(Head(trial.wire)) EXCEPT !.wire = Tail(trial.wire)]
    /\ UNCHANGED <<response, last_event_id, last_try, retry, pc, event, result,
                   now, nreq, lastReq, answer, rd, block, owed, lastId, errRun, cut,
                   atCall>>

EventNext ==
    \/ \E line \in InLines : Feed(line)
    \/ Clear
    \/ \E e \in ShowEvents : Show(e)
    \/ Echo

SpecEvent == Init /\ [][EventNext]_vars

----------------------------------------------------------------------------
(* Steps of a behaviour, recognised from the state before and after *)

ReadFieldStep == pc = "read" /\ Len(block') = Len(block) + 1
LineJustRead == block'[Len(block')]
DispatchStep == pc = "read" /\ pc' = "idle"
EofStep == pc = "read" /\ pc' # "read" /\ rd' = "eof"
ReadErrorStep == pc = "read" /\ pc' # "read" /\ rd' = "err"
RequestStep == nreq' = nreq + 1

Max(a, b) == IF a >= b THEN a ELSE b

\* the Event a block of body lines accumulates to, from an empty accumulator
RECURSIVE BlockEvent(_)
BlockEvent(ls) ==
    IF ls = <<>> THEN EmptyEvent
    ELSE parse_event_line(ls[Len(ls)], BlockEvent(SubSeq(ls, 1, Len(ls) - 1))).event

HasHeader(hs, name) == \E h \in hs : h[1] = name

----------------------------------------------------------------------------
(* C1: the Events returned by successive pulls are exactly the             *)
(* blank-line-terminated blocks of the bodies, one Event per blank line,   *)
(* in order: every blank line served has had its Event returned (none      *)
(* owed, none returned twice), and the Event just returned is the one the  *)
(* lines served since the previous Event or the connect accumulate to.     *)
C1_EventsAreBlocks ==
    /\ owed = 0
    /\ result.kind = "Event" => result.event = BlockEvent(block)

C1_Witness ==
    /\ result.kind = "Event"
    /\ nreq = 2
    /\ block = <<LineId1, LineData>>

(* C2 as claimed: last_event_id changes only when a pull dispatches an     *)
(* Event that carries a non-empty id, and is then that id; it is never     *)
(* cleared once set.                                                       *)
C2_OnlyNonEmptyId ==
    [][/\ last_event_id' # last_event_id =>
            /\ DispatchStep
            /\ result'.event.id # None
            /\ result'.event.id[1] # <<>>
            /\ last_event_id' = result'.event.id
       /\ last_event_id # None => last_event_id' # None]_vars

(* C2 amended: last_event_id changes only when a pull dispatches an Event  *)
(* whose id is present, the empty string included, and is then that id;    *)
(* every such dispatch sets it; an Event without id, an end-of-stream and  *)
(* every returned error leave it unchanged; it never becomes absent again. *)
C2_OnlyDispatchedId ==
    [][/\ last_event_id' # last_event_id =>
            /\ DispatchStep
            /\ result'.event.id # None
            /\ last_event_id' = result'.event.id
       /\ DispatchStep /\ result'.event.id # None =>
            last_event_id' = result'.event.id
       /\ last_event_id # None => last_event_id' # None]_vars

C2_Witness ==
    /\ result.kind = "Event"
    /\ result.event.id = Some(<<>>)
    /\ last_event_id = Some(<<>>)
    /\ nreq = 2

(* C3: every request carries Accept: text/event-stream, and carries        *)
(* Last-Event-ID exactly when an Event with an id has been dispatched,     *)
(* with the id of the most recent such Event; the first request carries    *)
(* no Last-Event-ID.                                                       *)
C3_RequestHeaders ==
    lastReq # None =>
        LET hs == lastReq[1].headers IN
        /\ <<"Accept", <<"t", "e", "x", "t", "/", "e", "v", "e", "n", "t", "-",
                        "s", "t", "r", "e", "a", "m">>>> \in hs
        /\ nreq = 1 => ~HasHeader(hs, "Last-Event-ID")
        /\ pc = "send" =>
            /\ HasHeader(hs, "Last-Event-ID") <=> lastId # None
            /\ \A h \in hs : h[1] = "Last-Event-ID" => h[2] = lastId[1]

C3_Witness ==
    /\ pc = "send"
    /\ nreq = 2
    /\ <<"Last-Event-ID", <<"1">>>> \in lastReq[1].headers

(* C4: at a clean end-of-stream the pull does not return: the connection   *)
(* is released, the client is Idle, and the same pull goes through the     *)
(* retry wait and the connect, and reads the new body once it is accepted. *)
C4_EofReconnects ==
    [][/\ EofStep => response' = "None" /\ pc' = "wait" /\ result' = NoResult
       /\ pc = "wait" /\ pc' # pc => pc' = "connect" /\ response' = "None"
       /\ pc = "connect" /\ pc' # pc => pc' \in {"send", "panicked"}
       /\ pc = "send" /\ response' = "Open" => pc' = "read" /\ result' = NoResult]_vars

C4_Witness ==
    /\ rd = "eof"
    /\ pc = "read"
    /\ response = "Open"
    /\ result = NoResult
    /\ nreq = 2

(* C5 as claimed: when a read of the open body fails, that pull returns    *)
(* Error::Io and the client becomes Idle.                                  *)
C5_ReadErrorReturned ==
    [][ReadErrorStep =>
            /\ result' = ErrIo
            /\ pc' = "idle"
            /\ response' = "None"]_vars

(* C5 amended: when a read of the open body fails, the client becomes Idle *)
(* (connection released, last_try set to the time of the failure) but the  *)
(* pull does not return the error: the same pull goes on to the retry wait *)
(* and reconnects, as for a clean end-of-stream; no pull returns Error::Io.*)
C5_ReadErrorReconnects ==
    [][/\ ReadErrorStep =>
            /\ response' = "None"
            /\ pc' = "wait"
            /\ result' = NoResult
            /\ last_try' = Some(now)
       /\ result' # ErrIo]_vars

C5_Witness ==
    /\ rd = "err"
    /\ pc = "read"
    /\ response = "Open"
    /\ result = NoResult
    /\ nreq = 2

(* C6: a response whose status is outside [200,300) makes the pull return  *)
(* the Http error with that status; a transport failure makes it return    *)
(* the transport error; no connection is stored and the client is Idle.    *)
C6_ConnectErrors ==
    answer # None =>
        LET a == answer[1] IN
        /\ a.kind = "fail" =>
            result = ErrReqwest /\ response = "None" /\ pc = "idle"
        /\ a.kind = "resp" /\ ~(200 <= a.status /\ a.status < 300) =>
            result = ErrHttp(a.status) /\ response = "None" /\ pc = "idle"

C6_Witness ==
    /\ answer # None
    /\ answer[1].kind = "resp"
    /\ answer[1].status = 300
    /\ result = ErrHttp(300)
    /\ nreq = 2

\* type/subtype of a Content-Type value: the text before the parameters,
\* compared without regard to case
Essence(ct) ==
    ToLower(SubSeq(ct, 1, IF Find(ct, ";") > 0 THEN Find(ct, ";") - 1 ELSE Len(ct)))

(* C7: for a successful status the connect is accepted exactly when a      *)
(* Content-Type is present with type/subtype text/event-stream; an absent  *)
(* header gives NoContentType, every other value gives InvalidContentType  *)
(* with that value, and the client stays Idle.                             *)
C7_ContentTypeChecked ==
    answer # None /\ answer[1].kind = "resp"
        /\ 200 <= answer[1].status /\ answer[1].status < 300 =>
        LET ct == answer[1].ct IN
        /\ ct = None =>
            result = ErrNoContentType /\ response = "None" /\ pc = "idle"
        /\ ct # None /\ Essence(ct[1]) = CtEventStream =>
            response = "Open" /\ pc = "read" /\ result = NoResult
        /\ ct # None /\ Essence(ct[1]) # CtEventStream =>
            /\ result.kind = "Err"
            /\ result.error = "InvalidContentType"
            /\ result.mime.source = ct[1]
            /\ response = "None"
            /\ pc = "idle"

(* C8: a request is issued no earlier than retry (its value at that time)  *)
(* after the previous request was issued, whatever ended the previous one; *)
(* before the first request the pull does not wait.                        *)
C8_RequestsSpaced ==
    [][/\ RequestStep /\ nreq >= 1 => lastReq'[1].t - lastReq[1].t >= retry'
       /\ pc = "wait" /\ nreq = 0 => now' = now]_vars

C8_Witness ==
    /\ pc = "send"
    /\ nreq = 2
    /\ retry = 7
    /\ lastReq[1].t = 7

(* C9 as claimed: last_try is written only immediately before a transport  *)
(* attempt, and the retry wait lasts max(0, retry - time since the         *)
(* previous transport attempt was started), also after an end-of-stream.   *)
C9_WaitFromAttempt ==
    [][/\ last_try' # last_try => pc = "connect"
       /\ pc = "wait" /\ pc' = "connect" /\ lastReq # None =>
            now' = Max(now, lastReq[1].t + retry)]_vars

(* C9 amended: last_try is written immediately before each transport       *)
(* attempt and also when an open body ends (clean end-of-stream or read    *)
(* error), each time with the current time; the retry wait lasts           *)
(* max(0, retry - time since last_try), so a reconnect after the end of a  *)
(* body waits the full retry interval counted from the end of that body.   *)
C9_WaitFromLastTry ==
    [][/\ last_try' # last_try =>
            /\ last_try' = Some(now)
            /\ pc = "connect" \/ EofStep \/ ReadErrorStep
       /\ EofStep \/ ReadErrorStep => last_try' = Some(now)
       /\ RequestStep => last_try' = Some(now)
       /\ pc = "wait" /\ pc' = "connect" =>
            now' = IF last_try = None THEN now ELSE Max(now, last_try[1] + retry)]_vars

C9_Witness ==
    /\ pc = "send"
    /\ nreq = 2
    /\ rd = "eof"
    /\ retry = 5000
    /\ lastReq[1].t = 10000

\* the interval a body line asks for, if it is a retry line with a valid value
RetryOf(line) ==
    IF line = <<"r", "e", "t", "r", "y", ":", " ", "7", "\n">> THEN Some(7)
    ELSE IF line = <<"r", "e", "t", "r", "y", ":", "0", "\n">> THEN Some(0)
    ELSE None

(* C10: retry is 5000 ms at construction; it changes only when a line      *)
(* 'retry: <n>' with a valid value is read, which sets it to n, so the     *)
(* last such line wins; a malformed value, every other line, an            *)
(* end-of-stream and every returned error leave it unchanged.              *)
C10_RetryInterval ==
    /\ retry = 5000
    /\ [][/\ retry' # retry => ReadFieldStep /\ RetryOf(LineJustRead) # None
          /\ ReadFieldStep /\ RetryOf(LineJustRead) # None =>
                retry' = RetryOf(LineJustRead)[1]
          /\ ReadFieldStep /\ RetryOf(LineJustRead) = None => retry' = retry]_vars

C10_Witness ==
    /\ retry = 0
    /\ block = <<LineRetry7, LineRetry0>>

\* an answer next_request accepts according to the interface: a success
\* status and a Content-Type whose type/subtype is text/event-stream
ValidAnswer(a) ==
    /\ a.kind = "resp"
    /\ 200 <= a.status /\ a.status < 300
    /\ a.ct # None
    /\ Essence(a.ct[1]) = CtEventStream

(* C11: every returned error is non-fatal: when a pull returns an error no *)
(* connection is open and the client is Idle; the next pull goes through   *)
(* the retry wait (until retry after last_try) and issues a new transport  *)
(* request; and after any run of errors, a pull whose request gets a valid *)
(* response is connected and returns the Events of that body.              *)
C11_ErrorsNonFatal ==
    [][/\ result'.kind = "Err" => response' = "None" /\ pc' = "idle"
       /\ result.kind = "Err" /\ pc' # pc => pc' = "wait" /\ errRun' > 0
       /\ errRun > 0 /\ pc = "wait" /\ pc' # pc =>
            pc' = "connect" /\ now' >= last_try[1] + retry
       /\ errRun > 0 /\ pc = "connect" /\ pc' # pc =>
            RequestStep /\ pc' = "send"
       /\ errRun > 0 /\ pc = "send" /\ pc' # pc /\ ValidAnswer(answer'[1]) =>
            response' = "Open" /\ pc' = "read"
       /\ errRun > 0 /\ DispatchStep =>
            result' = OkEvent(BlockEvent(block'))]_vars

C11_Witness ==
    /\ errRun = 1
    /\ nreq = 2
    /\ result.kind = "Event"
    /\ block = <<LineData>>
    /\ response = "Open"

----------------------------------------------------------------------------
(* Claims about src/src/event.rs, checked under SpecEvent. *)

\* the written text of the Event has been read back to its last line
ReadBack == trial.src # None /\ trial.wire = <<>>

NoLf(s) == \A i \in 1..Len(s) : s[i] # "\n"
NotEndCr(s) == s = <<>> \/ s[Len(s)] # "\r"

\* an Event as parse_event_line builds them: no line break inside id or
\* event_type, every line of data ended by one "\n" and none by "\r\n"
WireSafe(e) ==
    /\ e.id # None => NoLf(e.id[1]) /\ NotEndCr(e.id[1])
    /\ e.event_type # None => NoLf(e.event_type[1]) /\ NotEndCr(e.event_type[1])
    /\ e.data # <<>> => e.data[Len(e.data)] = "\n"
    /\ \A i \in 1..(Len(e.data) - 1) : ~(e.data[i] = "\r" /\ e.data[i + 1] = "\n")

(* C12, as the claim states it: every Event written with Display, followed
   by a blank line and read back line by line on an empty accumulator, ends
   with Dispatch and an accumulator equal to the Event.  The code does not
   do this for an Event whose data does not end in a newline. *)
C12_RoundTripAll ==
    ReadBack => trial.tag = "Dispatch" /\ trial.acc = trial.src[1]

(* C12, amended: the round trip gives back the Event when its id and
   event_type hold no line feed and do not end in a carriage return, and
   its data is empty or ends in a line feed and holds no "\r\n". *)
C12_RoundTripWireSafe ==
    ReadBack /\ WireSafe(trial.src[1]) =>
        trial.tag = "Dispatch" /\ trial.acc = trial.src[1]

C12_Witness ==
    /\ ReadBack
    /\ trial.src[1] = [id |-> Some(<<" ", "1">>), event_type |-> Some(<<"e">>),
                        data |-> <<"a", "\n", "b", "\n">>]
    /\ trial.acc = trial.src[1]
    /\ trial.nfed = 5

\* one call of parse_event_line, and the line it was given
FedStep == trial'.nfed = trial.nfed + 1
LineFed == trial'.line[1]

DataValue(l) ==
    CASE l = InDataA -> <<"a">>
      [] l = InDataB -> <<"b">>
      [] l = InDataSp -> <<" ", "c">>
      [] l = InDataColon -> <<"a", ":", "b">>
      [] l = InDataBare -> <<>>

(* C13: every data line returns Next and puts its value and one newline at
   the end of the accumulated data, touching nothing else; a blank line
   after them returns Dispatch and leaves id, event_type and data as
   accumulated. *)
C13_DataLinesConcatenate ==
    [][FedStep =>
        /\ LineFed \in InData =>
              /\ trial'.tag = "Next"
              /\ trial'.acc =
                   [trial.acc EXCEPT !.data = @ \o DataValue(LineFed) \o <<"\n">>]
        /\ LineFed \in InBlank =>
              trial'.tag = "Dispatch" /\ trial'.acc = trial.acc]_vars

C13_Witness ==
    /\ trial.src = None
    /\ trial.tag = "Dispatch"
    /\ trial.acc.data = <<"b", "\n", " ", "c", "\n">>
    /\ trial.nfed = 3

NoColonContent(l) == Find(l, ":") = 0 /\ l \notin InBlank

(* C14, as the claim states it: a line with content and no colon returns
   Next and leaves the accumulator as it was.  The lines `data`, `id` and
   `event` are not ignored. *)
C14_NoColonIgnored ==
    [][FedStep /\ NoColonContent(LineFed) =>
        trial'.tag = "Next" /\ trial'.acc = trial.acc]_vars

(* C14, amended: a line with content and no colon is a field name with an
   empty value: it returns Next; `data` appends an empty line to data, `id`
   sets id to the empty string, `event` sets event_type to the empty
   string, and every other such line leaves the accumulator as it was. *)
C14_NoColonIsFieldName ==
    [][FedStep /\ NoColonContent(LineFed) =>
        /\ trial'.tag = "Next"
        /\ trial'.acc =
             CASE LineFed = InDataBare -> [trial.acc EXCEPT !.data = @ \o <<"\n">>]
               [] LineFed = InIdBare -> [trial.acc EXCEPT !.id = Some(<<>>)]
               [] LineFed = InEventBare -> [trial.acc EXCEPT !.event_type = Some(<<>>)]
               [] OTHER -> trial.acc]_vars

C14_Witness ==
    /\ trial.src = None
    /\ trial.line = Some(InEventBare)
    /\ trial.acc = [id |-> None, event_type |-> Some(<<>>), data |-> <<"\n">>]

RetryMs(l) ==
    CASE l = LineRetry7 -> 7
      [] l = LineRetry0 -> 0
      [] l = InRetryPlus -> 7

(* C15: parse_event_line always returns one of its three results; a comment
   line, a line with an unrecognized field name and a retry line whose
   value is not a u64 return Next and leave the accumulator as it was; a
   retry line with a valid value returns SetRetry with that value and
   leaves the accumulator as it was. *)
C15_IgnoredLinesAndRetry ==
    [][FedStep =>
        /\ trial'.tag \in {"Next", "Dispatch", "SetRetry"}
        /\ LineFed \in {InComment, InOther, InOtherBare} \cup InRetryBad =>
              trial'.tag = "Next" /\ trial'.acc = trial.acc
        /\ LineFed \in InRetryGood =>
              /\ trial'.tag = "SetRetry"
              /\ trial'.ms = RetryMs(LineFed)
              /\ trial'.acc = trial.acc]_vars

C15_Witness ==
    /\ trial.src = None
    /\ trial.line = Some(InRetryPlus)
    /\ trial.tag = "SetRetry" /\ trial.ms = 7
    /\ trial.acc = [id |-> Some(<<"4", "2">>), event_type |-> None,
                     data |-> <<"a", "\n">>]

\* the lines of each data handed to Display
LinesOfData(d) ==
    CASE d = <<>> -> <<>>
      [] d = <<"a">> -> << <<"a">> >>
      [] d = <<"a", "\n">> -> << <<"a">> >>
      [] d = <<"a", "\n", "\n", "b">> -> << <<"a">>, <<>>, <<"b">> >>
      [] d = <<"a", "\r", "\n">> -> << <<"a">> >>
      [] d = <<"\n">> -> << <<>> >>
      [] d = <<"a", "\n", "b", "\n">> -> << <<"a">>, <<"b">> >>

FieldLine(name, value) == name \o <<":", " ">> \o value \o <<"\n">>

RECURSIVE DataText(_)
DataText(ls) ==
    IF ls = <<>> THEN <<>>
    ELSE DataText(SubSeq(ls, 1, Len(ls) - 1))
            \o FieldLine(<<"d", "a", "t", "a">>, ls[Len(ls)])

(* C18: the text Display writes is the line `id: <id>` if the id is
   present, then the line `event: <event_type>` if the event type is
   present, then one line `data: <line>` for each line of data in order
   (`data: ` for an empty one), each ended by a newline, and nothing else. *)
C18_DisplayFormat ==
    trial.src # None =>
        LET e == trial.src[1] IN
        trial.out =
            (IF e.id # None THEN FieldLine(<<"i", "d">>, e.id[1]) ELSE <<>>)
            \o (IF e.event_type # None
                 THEN FieldLine(<<"e", "v", "e", "n", "t">>, e.event_type[1])
                 ELSE <<>>)
            \o DataText(LinesOfData(e.data))

C18_Witness ==
    /\ trial.src = Some([id |-> Some(<<"1">>), event_type |-> Some(<<"e">>),
                          data |-> <<"a", "\n", "\n", "b">>])
    /\ trial.out = <<"i", "d", ":", " ", "1", "\n",
                      "e", "v", "e", "n", "t", ":", " ", "e", "\n",
                      "d", "a", "t", "a", ":", " ", "a", "\n",
                      "d", "a", "t", "a", ":", " ", "\n",
                      "d", "a", "t", "a", ":", " ", "b", "\n">>

(* C21: the trailing CR and LF characters go first; the line is split at
   its first colon only, the value is what follows with at most one leading
   space removed, so a later colon, a second space and a carriage return
   inside the value stay in it; a field name in another case or with a
   space before or after it is none of event, data, id, retry. *)
C21_SplitAtFirstColon ==
    [][FedStep =>
        /\ LineFed \in {InDataColon, InDataSp, InIdColon, InEventSp, InDataUpper,
                         InDataLead, InDataTrail, InDataCrInside} =>
              trial'.tag = "Next"
        /\ LineFed = InDataColon =>
              trial'.acc = [trial.acc EXCEPT !.data = @ \o <<"a", ":", "b", "\n">>]
        /\ LineFed = InDataSp =>
              trial'.acc = [trial.acc EXCEPT !.data = @ \o <<" ", "c", "\n">>]
        /\ LineFed = InDataCrInside =>
              trial'.acc = [trial.acc EXCEPT !.data = @ \o <<"a", "\r", "b", "\n">>]
        /\ LineFed = InIdColon =>
              trial'.acc = [trial.acc EXCEPT !.id = <<(<<"1", ":", "2">>)>>]
        /\ LineFed = InEventSp =>
              trial'.acc = [trial.acc EXCEPT !.event_type = <<(<<" ", "e">>)>>]
        /\ LineFed \in {InDataUpper, InDataLead, InDataTrail} =>
              trial'.acc = trial.acc]_vars

C21_Witness ==
    /\ trial.src = None
    /\ trial.line = Some(InDataTrail)
    /\ trial.acc = [id |-> Some(<<"1", ":", "2">>), event_type |-> None,
                     data |-> <<"a", ":", "b", "\n">>]

----------------------------------------------------------------------------
(* Further claims about src/src/reqwest.rs, checked under Spec. *)

\* Iterator::next returns to its caller
ReturnStep == pc # "idle" /\ pc' = "idle"

(* C16: every return of Iterator::next carries Some(Ok(event)) or
   Some(Err(error)), never None, whatever events, errors and reconnects
   came before. *)
C16_NeverEnds ==
    [][ReturnStep => result'.kind \in {"Event", "Err"}]_vars

C16_Witness ==
    /\ pc = "idle"
    /\ result.kind = "Err"
    /\ nreq = 2
    /\ lastId # None
    /\ rd = "eof"

\* constructed, Iterator::next not called yet
NotPulledYet == pc = "idle" /\ result = NoResult

(* C17: from construction until the first pull the client has sent no
   request, holds no response, no last event id and no time of a last
   attempt, and its retry interval is 5000 ms; a request is only ever sent
   inside a pull. *)
C17_ConstructionSendsNothing ==
    [][/\ NotPulledYet =>
            /\ nreq = 0 /\ lastReq = None
            /\ response = "None"
            /\ last_event_id = None
            /\ last_try = None
            /\ retry = 5000
       /\ RequestStep => pc = "connect" /\ result = NoResult]_vars

C17_Witness ==
    /\ NotPulledYet
    /\ now = 5000
    /\ nreq = 0
    /\ response = "None"

(* C19: the accumulator is empty whenever reading starts, at the start of
   a pull and after a reconnect, and exists only while reading; an end of
   stream returns nothing and drops what was accumulated; the Event a
   blank line returns is the accumulator, which after a dropped partial
   event holds the lines read since the reconnect and nothing older. *)
C19_FreshAccumulator ==
    [][/\ pc # "read" => event = EmptyEvent
       /\ pc # "read" /\ pc' = "read" => event' = EmptyEvent /\ block' = <<>>
       /\ EofStep => pc' # "idle" /\ result' = NoResult /\ event' = EmptyEvent
       /\ DispatchStep => result' = OkEvent(event)
       /\ DispatchStep /\ cut => result'.event = BlockEvent(block')]_vars

C19_Witness ==
    /\ cut
    /\ rd = "line"
    /\ pc = "idle"
    /\ result = OkEvent([id |-> None, event_type |-> None, data |-> <<"a", "\n">>])

\* between pulls, the last one having returned an Event
EventReturned == pc = "idle" /\ result.kind = "Event"

(* C20: returning an Event keeps the response and sends nothing; while the
   caller holds the Event the client stays connected; the next pull goes
   straight to reading that response: no retry wait, no request, the time
   of the last attempt as it was. *)
C20_StaysConnected ==
    [][/\ DispatchStep =>
            response' = "Open" /\ UNCHANGED <<last_try, nreq, lastReq>>
       /\ EventReturned => response = "Open"
       /\ EventReturned /\ pc' # pc =>
            /\ pc' = "read"
            /\ UNCHANGED <<response, last_try, nreq, lastReq, now>>]_vars

C20_Witness ==
    /\ EventReturned
    /\ nreq = 1
    /\ lastId = Some(<<"1">>)
    /\ result.event = [id |-> None, event_type |-> None, data |-> <<"a", "\n">>]
    /\ last_try = Some(0) /\ now = 5000

\* Iterator::next returns an error
ErrorReturnStep == ReturnStep /\ result'.kind = "Err"

(* C22, as the claim states it: when a pull returns a connect error,
   last_event_id and retry are what they were when the pull was called and
   there is no connection.  The retry interval can differ: the pull may
   have read a retry line from a body that ended before the connect
   attempt that failed. *)
C22_ErrorPullChangesNothing ==
    [][ErrorReturnStep =>
        /\ last_event_id' = atCall.last_event_id
        /\ retry' = atCall.retry
        /\ response' = "None"]_vars

(* C22, amended: a pull that returns a connect error leaves last_event_id
   as it was when the pull was called and leaves no connection; retry is
   as it was too when the error came from the first connect attempt of the
   pull, and differs only when the pull read a body first; the connect
   attempt itself (the wait, the request, its answer) changes neither
   last_event_id nor retry and holds no connection. *)
C22_FailedConnectKeepsState ==
    [][/\ ErrorReturnStep =>
            /\ last_event_id' = atCall.last_event_id
            /\ response' = "None"
            /\ rd' = "none" => retry' = atCall.retry
       /\ pc \in {"wait", "connect", "send"} =>
            response = "None" /\ UNCHANGED <<last_event_id, retry>>]_vars

C22_Witness ==
    /\ pc = "idle"
    /\ result = ErrNoContentType
    /\ rd = "eof"
    /\ nreq = 2
    /\ last_event_id = Some(<<"1">>)
    /\ retry = 5000

\* responses the client holds
OpenConnections == IF response = "Open" THEN 1 ELSE 0

(* C23: the client holds at most one response; a request is only sent
   while it holds none, so the response of the previous connection is
   released before the request of a reconnect; a response is only stored
   by the answer to the request just sent, in an empty slot; end of stream
   and a read error release the response. *)
C23_OneConnection ==
    [][/\ OpenConnections <= 1
       /\ RequestStep => OpenConnections = 0 /\ response' = "None"
       /\ response' = "Open" /\ response # "Open" => pc = "send" /\ answer' # None
       /\ EofStep \/ ReadErrorStep => response = "Open" /\ response' = "None"]_vars

C23_Witness ==
    /\ response = "Open"
    /\ pc = "read"
    /\ nreq = 2
    /\ rd = "err"
    /\ answer # None

(* C24: a valid retry line sets retry in the step that reads it, without a
   return; an end of stream keeps that retry, returns nothing and drops
   the accumulated event; the wait that follows in the same pull runs
   until last_try plus the retry the body has just set. *)
C24_RetryBeforeDispatch ==
    [][/\ ReadFieldStep /\ RetryOf(LineJustRead) # None =>
            /\ retry' = RetryOf(LineJustRead)[1]
            /\ pc' = "read" /\ result' = NoResult
       /\ EofStep =>
            /\ retry' = retry
            /\ pc' = "wait" /\ result' = NoResult /\ event' = EmptyEvent
       /\ pc = "wait" /\ pc' = "connect" /\ rd = "eof" /\ retry # atCall.retry =>
            now' = Max(now, last_try[1] + retry)]_vars

C24_Witness ==
    /\ pc = "connect"
    /\ rd = "eof"
    /\ cut
    /\ atCall.retry = 5000 /\ retry = 7
    /\ last_try = Some(2500) /\ now = 2507

----------------------------------------------------------------------------
(* The transport is fair: a sleep ends, a request that can be sent is
   sent, a request sent is answered, and a read of an open body yields a
   line, the end of the stream or an error.  The caller need not pull. *)

Served == (\E line \in Lines : ReadLine(line)) \/ ReadEof \/ ReadError

SpecFair ==
    /\ Spec
    /\ WF_vars(Wait)
    /\ WF_vars(Connect)
    /\ WF_vars(\E out \in Outcomes : Respond(out))
    /\ WF_vars(Served)

PullInProgress == pc # "idle"

\* the transport has failed the connect attempt of the pull, or has served
\* the blank line that ends an event
TransportFailed == answer # None /\ ~ValidAnswer(answer[1])
BlankLineServed == pc = "idle" /\ result.kind = "Event"

(* C25: under the fair transport a pull in progress returns in the end,
   unless the transport never fails a connect attempt of it and never
   serves it a blank line.  A Content-Type that is no MIME type fails the
   attempt, and the pull panics instead of returning. *)
C25_PullReturns ==
    [](PullInProgress =>
          (<>(pc = "idle") \/ [](~TransportFailed /\ ~BlankLineServed)))

(* C25, the panic left aside: a pull in progress returns in the end, or
   panics, or the transport never fails a connect attempt of it and never
   serves it a blank line. *)
C25_PullReturnsOrPanics ==
    [](PullInProgress =>
          (<>(pc \in {"idle", "panicked"})
              \/ [](~TransportFailed /\ ~BlankLineServed)))

====
